---- MODULE Spec2Model ----
(***************************************************************************)
(* watchdo: the command lifecycle of the file-watching command runner.     *)
(*                                                                         *)
(* Three programs of the repository are modelled over one set of           *)
(* variables; `program` says which one a behaviour is an execution of:     *)
(*   "runner"  - a CommandRunner driven call by call, as the unit tests    *)
(*               of command_runner.rs drive it;                            *)
(*   "history" - a CommandHistory (command_history.rs) wrapping one        *)
(*               CommandRunner, driven call by call;                       *)
(*   "main"    - the watch loop of main.rs with its TestsHistory, the      *)
(*               test CommandRunner and the optional server CommandRunner. *)
(* Child processes exit, change events arrive and time passes              *)
(* asynchronously to the program.                                          *)
(***************************************************************************)
EXTENDS Integers, Sequences, FiniteSets, TLC

VARIABLES
    program,         \* "runner" | "history" | "main"
    status,          \* "ok" | "err" (a call returned Err) | "panic"
    cr,              \* runner program: the CommandRunner under test
    ch,              \* history program: the CommandHistory
    test_command,    \* main: CommandRunner of the test command
    server_command,  \* main: Option<CommandRunner> of the server command
    history,         \* main: the TestsHistory
    pc,              \* main: position of the watch loop inside its tick
    rx,              \* main: number of events queued in the channel
    now,             \* main: the monotonic clock (ms)
    last_printed,    \* main: None before the first print, then Some("strips"): which
                     \*       strips were printed last is not kept
    nstarts,         \* number of children the executors have started
    overlap,         \* some start replaced a child whose exit was not observed
    observed,        \* per child: polls that reported its exit
    delivered,       \* per child: CommandRunner::try_finish calls returning its output
    signals,         \* per child: terminate signals sent to it (0, 1, 2 = more)
    ncut,            \* polls that returned an output cut off by the time limit
    restarted,       \* the children a CommandHistory::restart call found running
    last,            \* the last call of the program, what it returned and the
                     \* child it signalled
    burst,           \* main: when the last change event was received, and the entries
                     \*       appended by the burst of events it belongs to
    anchor           \* main: when the last entry was appended, and whether the test
                     \*       command was started since

progVars == <<cr, ch, test_command, server_command, history, pc, rx, now, last_printed>>
ghostVars == <<nstarts, overlap, observed, delivered, signals, ncut, restarted, last, burst, anchor>>
vars == <<program, status, progVars, ghostVars>>

---------------------------------------------------------------------------
(* Bounds of the model *)
MaxStarts == 2      \* children started in the programs "runner" and "history"
MaxRequests == 3    \* entries of a CommandHistory timeline
MaxCutOffs == 1     \* polls that return an output cut off by the time limit
MaxEntries == 3     \* entries of the TestsHistory timeline, no server configured
MaxServerEntries == 2   \* entries of the TestsHistory timeline, server configured
MaxWindows == 2     \* the clock stops after this many throttle windows
MaxWidth == 2       \* columns of the terminal

---------------------------------------------------------------------------
(* Option<T>: None is the empty sequence, Some(x) the one-element sequence *)
None == <<>>
Some(x) == <<x>>
IsSome(o) == o /= <<>>
Unwrap(o) == o[1]

(* outcome of reading the output of an exited child: complete, cut off by  *)
(* the 100 ms time limit, or failed (another I/O error, or a cut-off       *)
(* capture that is not valid UTF-8)                                        *)
PollOutcomes == {"ok", "timeout", "error"}

---------------------------------------------------------------------------
(* executor.rs *)

\* CommandOutput; `run` stands for the captured text (the child that wrote it)
CommandOutput(c, complete) ==
    [run |-> c.run, success |-> c.success, complete |-> complete]

\* Executor::start: a fresh child process, still executing
Start(id) == [run |-> id, exited |-> FALSE, success |-> FALSE]

\* Child::poll of subprocess::Popen
ChildPoll(c, io) ==
    IF ~c.exited THEN [res |-> "Ok", val |-> None]
    ELSE IF io = "ok" THEN [res |-> "Ok", val |-> Some(CommandOutput(c, TRUE))]
    ELSE IF io = "timeout" THEN [res |-> "Ok", val |-> Some(CommandOutput(c, FALSE))]
    ELSE [res |-> "Err", val |-> None]

---------------------------------------------------------------------------
(* command_runner.rs *)

\* what a call returns: the object after the call, Ok/Err/Panic, the value,
\* and what the call did to children (observed an exit, delivered an output,
\* sent a signal, started a child, replaced an unobserved child, read an
\* output that the time limit cut off)
Ret(r, res, val) ==
    [r |-> r, res |-> res, val |-> val, obs |-> None, dlv |-> None,
     sig |-> None, started |-> FALSE, over |-> FALSE, cut |-> FALSE]

RunnerNew == [child |-> None, child_output |-> None]

RunnerRun(r, id, ok) ==
    IF ~ok THEN Ret(r, "Err", None)
    ELSE [Ret([r EXCEPT !.child = Some(Start(id))], "Ok", None)
            EXCEPT !.started = TRUE, !.over = IsSome(r.child)]

RunnerIsRunning(r, io) ==
    IF r.child = None THEN Ret(r, "Ok", FALSE)
    ELSE LET p == ChildPoll(Unwrap(r.child), io) IN
         IF p.res = "Err" THEN Ret(r, "Err", FALSE)
         ELSE IF IsSome(p.val)
              THEN [Ret([child |-> None, child_output |-> p.val], "Ok", FALSE)
                      EXCEPT !.obs = Some(Unwrap(p.val).run),
                             !.cut = ~Unwrap(p.val).complete]
              ELSE Ret(r, "Ok", TRUE)

\* try_finish that clones the cached output instead of taking it
RunnerTryFinishKeeps(r, io) ==
    LET ir == RunnerIsRunning(r, io) IN
    IF ir.res = "Err" \/ ir.val THEN [ir EXCEPT !.val = None]
    ELSE [ir EXCEPT !.val = ir.r.child_output,
                    !.dlv = IF IsSome(ir.r.child_output)
                            THEN Some(Unwrap(ir.r.child_output).run) ELSE None]

RunnerTryFinish(r, io) ==
    LET ir == RunnerIsRunning(r, io) IN
    IF ir.res = "Err" THEN [ir EXCEPT !.val = None]
    ELSE IF ir.val THEN [ir EXCEPT !.val = None]
    ELSE [ir EXCEPT !.r = [ir.r EXCEPT !.child_output = None],
                    !.val = ir.r.child_output,
                    !.dlv = IF IsSome(ir.r.child_output)
                            THEN Some(Unwrap(ir.r.child_output).run) ELSE None]

\* terminate that stops tracking the child it signalled
RunnerTerminateForgets(r, ok) ==
    IF r.child = None THEN Ret(r, "Ok", None)
    ELSE IF ok THEN [Ret([r EXCEPT !.child = None], "Ok", None)
                        EXCEPT !.sig = Some(Unwrap(r.child).run)]
    ELSE Ret(r, "Err", None)

RunnerTerminate(r, ok) ==
    IF r.child = None THEN Ret(r, "Ok", None)
    ELSE IF ok THEN [Ret(r, "Ok", None) EXCEPT !.sig = Some(Unwrap(r.child).run)]
    ELSE Ret(r, "Err", None)

\* the operating system: the child a runner tracks exits
RunnerChildExit(r, success) ==
    [r EXCEPT !.child = Some([Unwrap(r.child) EXCEPT !.exited = TRUE, !.success = success])]

RunnerChildLive(r) == IsSome(r.child) /\ ~Unwrap(r.child).exited

---------------------------------------------------------------------------
(* command_history.rs *)

Requested == [tag |-> "Requested", out |-> None]
Running == [tag |-> "Running", out |-> None]
Completed(output) == [tag |-> "Completed", out |-> Some(output)]
Terminated(output) == [tag |-> "Terminated", out |-> Some(output)]

HistoryNew == [runner |-> RunnerNew, history |-> <<>>, terminated |-> FALSE]

\* iter_mut().rfind(|h| *h == Running): the index of the last Running entry, 0 if none
RFindRunning(h) ==
    LET S == {i \in 1..Len(h) : h[i] = Running} IN
    IF S = {} THEN 0 ELSE CHOOSE i \in S : \A j \in S : j <= i

HistoryRequestRun(h) == [h EXCEPT !.history = Append(@, Requested)]

\* try_finish that writes the outcome to the last entry instead of the Running one
HistoryTryFinishLast(h, io) ==
    LET tf == RunnerTryFinish(h.runner, io)
        h1 == [h EXCEPT !.runner = tf.r]
        i == Len(h.history)
    IN  IF tf.res = "Err" \/ tf.val = None THEN [tf EXCEPT !.r = h1]
        ELSE IF i = 0 THEN [tf EXCEPT !.r = h1, !.res = "Panic", !.val = None]
        ELSE [tf EXCEPT !.r = [h1 EXCEPT !.history[i] =
                                 IF h.terminated THEN Terminated(Unwrap(tf.val))
                                 ELSE Completed(Unwrap(tf.val))]]

HistoryTryFinish(h, io) ==
    LET tf == RunnerTryFinish(h.runner, io)
        h1 == [h EXCEPT !.runner = tf.r]
        i == RFindRunning(h.history)
    IN  IF tf.res = "Err" \/ tf.val = None THEN [tf EXCEPT !.r = h1]
        ELSE IF i = 0 THEN [tf EXCEPT !.r = h1, !.res = "Panic", !.val = None]
        ELSE [tf EXCEPT !.r = [h1 EXCEPT !.history[i] =
                                 IF h.terminated THEN Terminated(Unwrap(tf.val))
                                 ELSE Completed(Unwrap(tf.val))]]

\* is_running that reports a stale "not running" without polling the child
HistoryIsRunningStale(h, io) == Ret(h, "Ok", FALSE)

HistoryIsRunning(h, io) ==
    LET ir == RunnerIsRunning(h.runner, io)
        h1 == [h EXCEPT !.runner = ir.r]
    IN  IF ir.res = "Err" \/ ir.val THEN [ir EXCEPT !.r = h1]
        ELSE [HistoryTryFinish(h1, io) EXCEPT !.val = FALSE, !.obs = ir.obs, !.cut = ir.cut]

\* run_if_needed that promotes the oldest Requested entry instead of the last entry
HistoryRunIfNeededOldest(h, io, id, ok) ==
    LET ir == HistoryIsRunning(h, io)
        S == {i \in 1..Len(h.history) : ir.r.history[i] = Requested}
        n == IF S = {} THEN 0 ELSE CHOOSE i \in S : \A j \in S : i <= j
    IN  IF ir.res /= "Ok" \/ ir.val THEN [ir EXCEPT !.val = None]
        ELSE IF n > 0
        THEN LET rr == RunnerRun(ir.r.runner, id, ok) IN
             [rr EXCEPT !.r = [ir.r EXCEPT !.history[n] = Running, !.runner = rr.r],
                        !.obs = ir.obs, !.dlv = ir.dlv, !.cut = ir.cut]
        ELSE [ir EXCEPT !.val = None]

\* run_if_needed that does not ask is_running() first
HistoryRunIfNeededEager(h, io, id, ok) ==
    LET n == Len(h.history) IN
    IF n > 0 /\ h.history[n] = Requested
    THEN LET rr == RunnerRun(h.runner, id, ok) IN
         [rr EXCEPT !.r = [h EXCEPT !.history[n] = Running, !.runner = rr.r]]
    ELSE Ret(h, "Ok", None)

HistoryRunIfNeeded(h, io, id, ok) ==
    LET ir == HistoryIsRunning(h, io)
        n == Len(h.history)
    IN  IF ir.res /= "Ok" \/ ir.val THEN [ir EXCEPT !.val = None]
        ELSE IF n > 0 /\ ir.r.history[n] = Requested
        THEN LET rr == RunnerRun(ir.r.runner, id, ok) IN
             [rr EXCEPT !.r = [ir.r EXCEPT !.history[n] = Running, !.runner = rr.r],
                        !.obs = ir.obs, !.dlv = ir.dlv, !.cut = ir.cut]
        ELSE [ir EXCEPT !.val = None]

HistoryRestart(h, io, id, ok) ==
    LET ir == HistoryIsRunning(h, io) IN
    IF ir.res /= "Ok" THEN [ir EXCEPT !.val = None]
    ELSE IF ir.val
    THEN IF h.terminated THEN [ir EXCEPT !.val = None]
         ELSE LET t == RunnerTerminate(h.runner, ok) IN
              [t EXCEPT !.r = [h EXCEPT !.terminated = TRUE]]
    ELSE LET rr == RunnerRun(ir.r.runner, id, ok) IN
         [rr EXCEPT !.r = [ir.r EXCEPT !.runner = rr.r],
                    !.obs = ir.obs, !.dlv = ir.dlv, !.cut = ir.cut]

---------------------------------------------------------------------------
(* main.rs: TestsHistory *)

\* Duration::from_millis(100), the throttle handed to TestsHistory::new
Throttle == 100

NotRan(requested_at) == [tag |-> "NotRan", out |-> None, requested_at |-> requested_at]

ServerStateNew == [terminated |-> FALSE, state |-> Running]

TestsHistoryNew ==
    [history |-> <<>>, server_running_at |-> None, server_history |-> [i \in {} |-> ServerStateNew]]

TestsLast(th) == th.history[Len(th.history)]

\* new_file_tree whose window excludes its last instant (< for <=)
TestsNewFileTreeStrict(th, t) ==
    IF /\ Len(th.history) > 0
       /\ TestsLast(th).tag = "NotRan"
       /\ t - TestsLast(th).requested_at < Throttle
    THEN th
    ELSE [th EXCEPT !.history = Append(@, NotRan(t))]

\* new_file_tree that ignores a change while a test run is in flight
TestsNewFileTreeIdleOnly(th, t) ==
    IF Len(th.history) > 0 /\ TestsLast(th).tag \in {"NotRan", "Running"}
    THEN th
    ELSE [th EXCEPT !.history = Append(@, NotRan(t))]

TestsNewFileTree(th, t) ==
    IF /\ Len(th.history) > 0
       /\ TestsLast(th).tag = "NotRan"
       /\ t - TestsLast(th).requested_at <= Throttle
    THEN th
    ELSE [th EXCEPT !.history = Append(@, NotRan(t))]

\* index of the first Running entry, 0 if none
CurrentlyRunning(th) ==
    LET S == {i \in 1..Len(th.history) : th.history[i] = Running} IN
    IF S = {} THEN 0 ELSE CHOOSE i \in S : \A j \in S : i <= j

\* want_to_run that does not look for a Running entry
TestsWantToRunAlways(th) ==
    /\ Len(th.history) > 0
    /\ TestsLast(th).tag = "NotRan"

TestsWantToRun(th) ==
    /\ CurrentlyRunning(th) = 0
    /\ Len(th.history) > 0
    /\ TestsLast(th).tag = "NotRan"

\* run() that leaves the entry as it is
TestsRunForgets(th) == th

TestsRun(th) == [th EXCEPT !.history[Len(th.history)] = Running]

\* finished() that records only successful outputs
TestsFinishedDropsFailure(th, output) ==
    IF CurrentlyRunning(th) = 0 THEN [th |-> th, res |-> "Panic"]
    ELSE IF ~output.success THEN [th |-> th, res |-> "Ok"]
    ELSE [th |-> [th EXCEPT !.history[CurrentlyRunning(th)] = Completed(output)], res |-> "Ok"]

\* finished() that writes the outcome to the most recent entry
TestsFinishedLast(th, output) ==
    IF CurrentlyRunning(th) = 0 THEN [th |-> th, res |-> "Panic"]
    ELSE [th |-> [th EXCEPT !.history[Len(th.history)] = Completed(output)], res |-> "Ok"]

\* finished(): panics (res "Panic") when no entry is Running
TestsFinished(th, output) ==
    IF CurrentlyRunning(th) = 0 THEN [th |-> th, res |-> "Panic"]
    ELSE [th |-> [th EXCEPT !.history[CurrentlyRunning(th)] = Completed(output)], res |-> "Ok"]

\* want_to_restart_server that does not look at the outcome of the last test run
TestsWantToRestartServerAnyOutcome(th) ==
    IF IsSome(th.server_running_at) /\ Unwrap(th.server_running_at) = Len(th.history) - 1
    THEN FALSE
    ELSE /\ Len(th.history) > 0
         /\ TestsLast(th).tag = "Completed"

\* server_running_at and the indices of server_history are 0-based, as in the code
TestsWantToRestartServer(th) ==
    IF IsSome(th.server_running_at) /\ Unwrap(th.server_running_at) = Len(th.history) - 1
    THEN FALSE
    ELSE /\ Len(th.history) > 0
         /\ TestsLast(th).tag = "Completed"
         /\ Unwrap(TestsLast(th).out).success

ServerHistoryIndex(th, index) ==
    IF index \in DOMAIN th.server_history THEN th
    ELSE [th EXCEPT !.server_history =
            [i \in DOMAIN th.server_history \cup {index} |->
                IF i = index THEN ServerStateNew ELSE th.server_history[i]]]

TestsServerTryFinish(th, output) ==
    IF IsSome(th.server_running_at) /\ IsSome(output)
    THEN LET index == Unwrap(th.server_running_at) IN
         [th |-> [ServerHistoryIndex(th, index) EXCEPT
                     !.server_history[index].state = Completed(Unwrap(output))],
          res |-> "Ok"]
    ELSE IF th.server_running_at = None /\ IsSome(output)
    THEN [th |-> th, res |-> "Panic"]
    ELSE [th |-> th, res |-> "Ok"]

TestsServerTerminated(th) ==
    IF th.server_running_at = None THEN [th |-> th, res |-> "Panic"]
    ELSE LET index == Unwrap(th.server_running_at) IN
         [th |-> [ServerHistoryIndex(th, index) EXCEPT !.server_history[index].terminated = TRUE],
          res |-> "Ok"]

\* server_started that records the server one entry too far
TestsServerStartedOffByOne(th) ==
    LET index == Len(th.history) IN
    [ServerHistoryIndex([th EXCEPT !.server_running_at = Some(index)], index)
        EXCEPT !.server_history[index].state = Running]

TestsServerStarted(th) ==
    LET index == Len(th.history) - 1 IN
    [ServerHistoryIndex([th EXCEPT !.server_running_at = Some(index)], index)
        EXCEPT !.server_history[index].state = Running]

\* a ColoredString: its text and its background
Glyph(text, on) == [text |-> text, on |-> on]

\* the glyph of options.ok_str
OkStr == "ok"

Skip(s, k) == SubSeq(s, k + 1, Len(s))

Take(s, k) == SubSeq(s, 1, IF k < Len(s) THEN k ELSE Len(s))

Repeat(g, n) == [i \in 1..n |-> g]

TestGlyph(state) ==
    IF state.tag = "NotRan" THEN Glyph(".", "none")
    ELSE IF state.tag = "Running" THEN Glyph("?", "yellow")
    ELSE IF Unwrap(state.out).success THEN Glyph(OkStr, "green")
    ELSE Glyph("x", "red")

\* print_test that keeps the oldest entries: take(n) without the skip
print_test_oldest(th, n) ==
    LET history_chars == [i \in 1..Len(th.history) |-> TestGlyph(th.history[i])]
        spaces == Repeat(Glyph(" ", "white"), n)
        whole_print == spaces \o history_chars
    IN  Take(whole_print, n)

print_test(th, n) ==
    LET history_chars == [i \in 1..Len(th.history) |-> TestGlyph(th.history[i])]
        spaces == Repeat(Glyph(" ", "white"), n)
        whole_print == spaces \o history_chars
        min == Len(whole_print)
    IN  Take(Skip(whole_print, min - n), n)

\* the glyph of the server at the 0-based index of the timeline
ServerGlyph(th, index) ==
    IF index \notin DOMAIN th.server_history THEN Glyph(" ", "none")
    ELSE LET ss == th.server_history[index] IN
         IF ss.state = Running
         THEN IF ss.terminated THEN Glyph("x", "yellow") ELSE Glyph("?", "yellow")
         ELSE Glyph(IF Unwrap(ss.state.out).success THEN OkStr ELSE "x",
                    IF ss.terminated THEN "white" ELSE "red")

print_server(th, n) ==
    IF DOMAIN th.server_history = {} /\ th.server_running_at = None THEN <<>>
    ELSE LET chars == [i \in 1..Len(th.history) |-> ServerGlyph(th, i - 1)]
             spaces == Repeat(Glyph(" ", "none"), n)
             whole_print == spaces \o chars
             min == Len(whole_print)
         IN  <<Glyph("\n", "none")>> \o Take(Skip(whole_print, min - n), n)

print_strips(th, n) == print_test(th, n) \o print_server(th, n)

\* term_size::dimensions(): the widths the terminal may have
Widths == 0..MaxWidth

---------------------------------------------------------------------------
(* bookkeeping of what the calls did *)

\* the timeline of the watch loop may grow to this length
EntryLimit == IF IsSome(server_command) THEN MaxServerEntries ELSE MaxEntries

\* the watch loop starts each of its two commands at most once per timeline entry
LoopStarts == IF 2 * MaxServerEntries > MaxEntries THEN 2 * MaxServerEntries ELSE MaxEntries

StartLimit == IF program = "main" THEN LoopStarts ELSE MaxStarts

Runs == 1..(IF MaxStarts > LoopStarts THEN MaxStarts ELSE LoopStarts)

Bump(f, o) == IF IsSome(o) THEN [f EXCEPT ![Unwrap(o)] = @ + 1] ELSE f

\* the signals sent to one child are counted as 0, 1 or 2 = more than once
BumpSignals(f, o) ==
    IF IsSome(o) THEN [f EXCEPT ![Unwrap(o)] = IF @ < 2 THEN @ + 1 ELSE @] ELSE f

\* the effects of one call `x` named `op` that returned the output `out`
Record(op, x, out) ==
    /\ x.started => nstarts < StartLimit
    /\ x.cut => ncut < MaxCutOffs
    /\ nstarts' = IF x.started THEN nstarts + 1 ELSE nstarts
    /\ overlap' = (overlap \/ x.over)
    /\ observed' = Bump(observed, x.obs)
    /\ delivered' = Bump(delivered, x.dlv)
    /\ signals' = BumpSignals(signals, x.sig)
    /\ ncut' = IF x.cut THEN ncut + 1 ELSE ncut
    /\ last' = [op |-> op, res |-> x.res, out |-> out, sig |-> x.sig]

\* a caller that goes on after an Err
StatusAfterRetry(x) == IF x.res = "Panic" THEN "panic" ELSE "ok"

\* `?` in the caller: an Err ends the program, and so does a panic
StatusAfter(x) == IF x.res = "Ok" THEN "ok" ELSE IF x.res = "Err" THEN "err" ELSE "panic"

NextId == IF nstarts < StartLimit THEN nstarts + 1 ELSE StartLimit

ZeroRuns == [i \in Runs |-> 0]

InitGhost ==
    /\ nstarts = 0
    /\ overlap = FALSE
    /\ observed = ZeroRuns
    /\ delivered = ZeroRuns
    /\ signals = ZeroRuns
    /\ ncut = 0
    /\ restarted = {}
    /\ last = [op |-> "new", res |-> "Ok", out |-> None, sig |-> None]
    /\ burst = [at |-> None, pushed |-> 0]
    /\ anchor = [at |-> 0, started |-> FALSE]

---------------------------------------------------------------------------
(* program "runner": the calls of the CommandRunner unit tests, any order *)

InitRunner ==
    /\ program = "runner"
    /\ status = "ok"
    /\ cr = RunnerNew
    /\ ch = None
    /\ test_command = None
    /\ server_command = None
    /\ history = None
    /\ pc = "none"
    /\ rx = 0
    /\ now = 0
    /\ last_printed = None
    /\ InitGhost

RunnerFrame ==
    UNCHANGED <<program, ch, test_command, server_command, history, pc, rx, now, last_printed,
                restarted, burst, anchor>>

RunnerCall(op, x, out) ==
    /\ program = "runner"
    /\ status = "ok"
    /\ cr' = x.r
    /\ status' = StatusAfter(x)
    /\ Record(op, x, out)
    /\ RunnerFrame

CrRun == \E ok \in BOOLEAN : RunnerCall("run", RunnerRun(cr, NextId, ok), None)

CrIsRunning == \E io \in PollOutcomes : RunnerCall("is_running", RunnerIsRunning(cr, io), None)

CrTryFinish ==
    \E io \in PollOutcomes :
        LET x == RunnerTryFinish(cr, io) IN RunnerCall("try_finish", x, x.val)

CrTerminate == \E ok \in BOOLEAN : RunnerCall("terminate", RunnerTerminate(cr, ok), None)

CrChildExit ==
    /\ program = "runner"
    /\ status = "ok"
    /\ RunnerChildLive(cr)
    /\ \E success \in BOOLEAN : cr' = RunnerChildExit(cr, success)
    /\ UNCHANGED <<status, ghostVars>>
    /\ RunnerFrame

NextRunner == CrRun \/ CrIsRunning \/ CrTryFinish \/ CrTerminate \/ CrChildExit

SpecRunner == InitRunner /\ [][NextRunner]_vars

---------------------------------------------------------------------------
(* program "history": the calls of a CommandHistory, any order *)

InitHistory ==
    /\ program = "history"
    /\ status = "ok"
    /\ cr = None
    /\ ch = HistoryNew
    /\ test_command = None
    /\ server_command = None
    /\ history = None
    /\ pc = "none"
    /\ rx = 0
    /\ now = 0
    /\ last_printed = None
    /\ InitGhost

HistoryFrame ==
    UNCHANGED <<program, cr, test_command, server_command, history, pc, rx, now, last_printed,
                burst, anchor>>

HistoryCall(op, x, out) ==
    /\ program = "history"
    /\ status = "ok"
    /\ ch' = x.r
    /\ status' = StatusAfter(x)
    /\ Record(op, x, out)
    /\ HistoryFrame

ChRequestRun ==
    /\ program = "history"
    /\ Len(ch.history) < MaxRequests
    /\ HistoryCall("request_run", Ret(HistoryRequestRun(ch), "Ok", None), None)
    /\ UNCHANGED restarted

ChRunIfNeeded ==
    /\ \E io \in PollOutcomes, ok \in BOOLEAN :
          HistoryCall("run_if_needed", HistoryRunIfNeeded(ch, io, NextId, ok), None)
    /\ UNCHANGED restarted

ChTryFinish ==
    /\ \E io \in PollOutcomes :
          LET x == HistoryTryFinish(ch, io) IN HistoryCall("try_finish", x, x.val)
    /\ UNCHANGED restarted

\* restart(); `restarted` collects the children a call found still running
ChRestart ==
    \E io \in PollOutcomes, ok \in BOOLEAN :
        LET running == HistoryIsRunning(ch, io)
            found == running.res = "Ok" /\ running.val
        IN  /\ HistoryCall("restart", HistoryRestart(ch, io, NextId, ok), None)
            /\ restarted' = IF found THEN restarted \cup {Unwrap(ch.runner.child).run}
                             ELSE restarted

ChChildExit ==
    /\ program = "history"
    /\ status = "ok"
    /\ RunnerChildLive(ch.runner)
    /\ \E success \in BOOLEAN :
          ch' = [ch EXCEPT !.runner = RunnerChildExit(ch.runner, success)]
    /\ UNCHANGED <<status, ghostVars>>
    /\ HistoryFrame

NextHistory == ChRequestRun \/ ChRunIfNeeded \/ ChTryFinish \/ ChRestart \/ ChChildExit

SpecHistory == InitHistory /\ [][NextHistory]_vars

---------------------------------------------------------------------------
(* program "main": the watch loop of main.rs, one action per statement of   *)
(* its tick that polls, starts or signals a child, so that child exits,     *)
(* change events and the clock interleave with the tick as they do with     *)
(* the running process                                                      *)

InitMain ==
    /\ program = "main"
    /\ status = "ok"
    /\ cr = None
    /\ ch = None
    /\ test_command = RunnerNew
    /\ \E configured \in BOOLEAN :
          server_command = IF configured THEN Some(RunnerNew) ELSE None
    /\ history = TestsNewFileTree(TestsHistoryNew, 0)
    /\ pc = "recv"
    /\ rx = 0
    /\ now = 0
    /\ last_printed = None
    /\ InitGhost

MainFrame == UNCHANGED <<program, cr, ch, restarted>>

AtTick(at) == program = "main" /\ status = "ok" /\ pc = at

\* a call that touches no child
Plain(res) == Ret(None, res, None)

\* rx.try_recv() returned Ok(event): new_file_tree(), then `event?`
MainRecv ==
    /\ AtTick("recv")
    /\ rx > 0
    /\ LET th == TestsNewFileTree(history, now)
           n == Len(th.history) - Len(history.history)
           inBurst == IsSome(burst.at) /\ now - Unwrap(burst.at) <= Throttle
       IN  /\ history' = th
           /\ burst' = [at |-> Some(now), pushed |-> IF inBurst THEN burst.pushed + n ELSE n]
           /\ anchor' = IF n > 0 THEN [at |-> now, started |-> FALSE] ELSE anchor
    /\ rx' = rx - 1
    /\ \E event \in {"Ok", "Err"} :
          /\ status' = StatusAfter(Plain(event))
          /\ Record("new_file_tree", Plain(event), None)
    /\ UNCHANGED <<test_command, server_command, pc, now>>
    /\ UNCHANGED last_printed
    /\ MainFrame

\* rx.try_recv() returned Err(Empty): leave the drain loop
MainRecvEmpty ==
    /\ AtTick("recv")
    /\ rx = 0
    /\ pc' = "run"
    /\ UNCHANGED <<status, test_command, server_command, history, rx, now, ghostVars>>
    /\ UNCHANGED last_printed
    /\ MainFrame

\* if history.want_to_run() { test_command.run()?; history.run(); }
MainRun ==
    /\ AtTick("run")
    /\ pc' = "finish"
    /\ IF TestsWantToRun(history)
       THEN \E ok \in BOOLEAN :
               LET x == RunnerRun(test_command, NextId, ok) IN
               /\ test_command' = x.r
               /\ history' = IF x.res = "Ok" THEN TestsRun(history) ELSE history
               /\ anchor' = IF x.res = "Ok" THEN [anchor EXCEPT !.started = TRUE] ELSE anchor
               /\ status' = StatusAfter(x)
               /\ Record("test_run", x, None)
       ELSE /\ Record("test_idle", Plain("Ok"), None)
            /\ UNCHANGED <<test_command, history, anchor, status>>
    /\ UNCHANGED <<server_command, rx, now, burst>>
    /\ UNCHANGED last_printed
    /\ MainFrame

\* if let Some(output) = test_command.try_finish()? { history.finished(output); }
MainTestFinish ==
    /\ AtTick("finish")
    /\ pc' = "server_finish"
    /\ \E io \in PollOutcomes :
          LET x == RunnerTryFinish(test_command, io)
              f == IF x.res = "Ok" /\ IsSome(x.val)
                   THEN TestsFinished(history, Unwrap(x.val))
                   ELSE [th |-> history, res |-> x.res]
          IN  /\ test_command' = x.r
              /\ history' = f.th
              /\ status' = StatusAfter(f)
              /\ Record("test_try_finish", [x EXCEPT !.res = f.res], x.val)
    /\ UNCHANGED <<server_command, rx, now, burst, anchor>>
    /\ UNCHANGED last_printed
    /\ MainFrame

\* history.server_try_finish(server_command.try_finish()?), when a server is configured
MainServerFinish ==
    /\ AtTick("server_finish")
    /\ IF server_command = None
       THEN /\ pc' = "print"
            /\ Record("no_server", Plain("Ok"), None)
            /\ UNCHANGED <<server_command, history, status>>
       ELSE /\ pc' = "server_restart"
            /\ \E io \in PollOutcomes :
                  LET x == RunnerTryFinish(Unwrap(server_command), io)
                      f == IF x.res = "Ok"
                           THEN TestsServerTryFinish(history, x.val)
                           ELSE [th |-> history, res |-> x.res]
                  IN  /\ server_command' = Some(x.r)
                      /\ history' = f.th
                      /\ status' = StatusAfter(f)
                      /\ Record("server_try_finish", [x EXCEPT !.res = f.res], x.val)
    /\ UNCHANGED <<test_command, rx, now, burst, anchor>>
    /\ UNCHANGED last_printed
    /\ MainFrame

\* if history.want_to_restart_server() { match server_command.is_running()? {
\*     true => terminate + server_terminated, false => run + server_started } }
ServerRestart(sc, th, io, id, ok) ==
    LET ir == RunnerIsRunning(sc, io) IN
    IF ~TestsWantToRestartServer(th) THEN [Ret(sc, "Ok", None) EXCEPT !.val = th]
    ELSE IF ir.res = "Err" THEN [ir EXCEPT !.val = th]
    ELSE IF ir.val
    THEN LET t == RunnerTerminate(ir.r, ok)
             f == TestsServerTerminated(th)
         IN  IF t.res = "Err" THEN [t EXCEPT !.val = th]
             ELSE [t EXCEPT !.val = f.th, !.res = f.res]
    ELSE LET rr == RunnerRun(ir.r, id, ok) IN
         IF rr.res = "Err" THEN [rr EXCEPT !.val = th, !.obs = ir.obs, !.cut = ir.cut]
         ELSE [rr EXCEPT !.val = TestsServerStarted(th), !.obs = ir.obs, !.cut = ir.cut]

MainServerRestart ==
    /\ AtTick("server_restart")
    /\ pc' = "print"
    /\ \E io \in PollOutcomes, ok \in BOOLEAN :
          LET x == ServerRestart(Unwrap(server_command), history, io, NextId, ok) IN
          /\ server_command' = Some(x.r)
          /\ history' = x.val
          /\ status' = StatusAfter(x)
          /\ Record(IF IsSome(x.sig) THEN "server_terminate"
                    ELSE IF x.started THEN "server_run"
                    ELSE IF TestsWantToRestartServer(history) THEN "server_restart"
                    ELSE "server_idle", x, None)
    /\ UNCHANGED <<test_command, rx, now, burst, anchor>>
    /\ UNCHANGED last_printed
    /\ MainFrame

\* print the strips print_strips(history, width) unless they are the ones
\* printed last, sleep 10 ms, next iteration
MainSleep ==
    /\ AtTick("print")
    /\ pc' = "recv"
    /\ last_printed' = Some("strips")
    /\ UNCHANGED <<status, test_command, server_command, history, rx, now, ghostVars>>
    /\ MainFrame

\* the environment of the loop
TestChildExit ==
    /\ program = "main"
    /\ status = "ok"
    /\ RunnerChildLive(test_command)
    /\ \E success \in BOOLEAN : test_command' = RunnerChildExit(test_command, success)
    /\ UNCHANGED <<status, server_command, history, pc, rx, now, ghostVars>>
    /\ UNCHANGED last_printed
    /\ MainFrame

ServerChildExit ==
    /\ program = "main"
    /\ status = "ok"
    /\ IsSome(server_command)
    /\ RunnerChildLive(Unwrap(server_command))
    /\ \E success \in BOOLEAN :
          server_command' = Some(RunnerChildExit(Unwrap(server_command), success))
    /\ UNCHANGED <<status, test_command, history, pc, rx, now, ghostVars>>
    /\ UNCHANGED last_printed
    /\ MainFrame

\* the watcher's callback sends an event (a change or a watcher error: which
\* one is read, and so decided, in MainRecv), while the timeline has room
FileChange ==
    /\ program = "main"
    /\ status = "ok"
    /\ Len(history.history) + rx < EntryLimit
    /\ rx' = rx + 1
    /\ UNCHANGED <<status, test_command, server_command, history, pc, now, ghostVars>>
    /\ UNCHANGED last_printed
    /\ MainFrame

\* time passes, a throttle window at a time
Advance ==
    /\ program = "main"
    /\ status = "ok"
    /\ now + Throttle <= MaxWindows * Throttle
    /\ now' = now + Throttle
    /\ UNCHANGED <<status, test_command, server_command, history, pc, rx, ghostVars>>
    /\ UNCHANGED last_printed
    /\ MainFrame

NextMain ==
    \/ MainRecv \/ MainRecvEmpty \/ MainRun \/ MainTestFinish
    \/ MainServerFinish \/ MainServerRestart \/ MainSleep
    \/ TestChildExit \/ ServerChildExit \/ FileChange \/ Advance

SpecMain == InitMain /\ [][NextMain]_vars

\* the steps of the loop itself: it runs on from each of them
MainTick ==
    \/ MainRecv \/ MainRecvEmpty \/ MainRun \/ MainTestFinish
    \/ MainServerFinish \/ MainServerRestart \/ MainSleep

\* a server process that was sent the terminate signal exits
ServerSignalledExit ==
    /\ ServerChildExit
    /\ signals[Unwrap(Unwrap(server_command).child).run] >= 1

\* the watch loop keeps ticking and every signalled server process exits
SpecServerFair == SpecMain /\ WF_vars(MainTick) /\ WF_vars(ServerSignalledExit)

\* the drain loop is left: try_recv() found the channel empty
DrainEnded == status /= "ok" \/ pc /= "recv"

\* the watch loop keeps ticking, every drain of the channel ends (events do
\* not arrive without pause faster than try_recv() takes them), and every
\* test process exits
SpecTestFair ==
    /\ SpecMain
    /\ WF_vars(MainTick)
    /\ []<>DrainEnded
    /\ WF_vars(TestChildExit)

---------------------------------------------------------------------------
(* any of the three programs *)

Init == InitRunner \/ InitHistory \/ InitMain

Next == NextRunner \/ NextHistory \/ NextMain

Spec == Init /\ [][Next]_vars

---------------------------------------------------------------------------
(* Properties *)

\* the timeline of the CommandHistory (empty in the other programs)
Timeline == IF program = "history" THEN ch.history ELSE <<>>
TimelineNext == IF program = "history" THEN ch'.history ELSE <<>>

RunOf(entry) == Unwrap(entry.out).run

Cached(r) ==
    /\ program = "runner"
    /\ IsSome(cr.child_output)
    /\ Unwrap(cr.child_output).run = r

\* C3 as stated: every run whose exit was observed has its output returned by
\* exactly one try_finish (it is either still cached or was delivered once),
\* and its child is polled no more after the exit was observed.
ExactlyOnceDelivery ==
    program = "runner" =>
        \A r \in Runs :
            /\ delivered[r] <= 1
            /\ observed[r] <= 1
            /\ (observed[r] = 1 /\ ~Cached(r)) => delivered[r] = 1

\* C3 amended: at most one try_finish returns a run's output and an exited
\* child is polled no more; a cached output leaves the cache undelivered only
\* when run() had installed a new child before try_finish was called.
AtMostOnceDelivery ==
    [][program = "runner" =>
        \A r \in Runs :
            /\ delivered'[r] <= 1
            /\ observed'[r] <= 1
            /\ delivered'[r] <= observed'[r]
            /\ (Cached(r) /\ ~Cached(r)') =>
                  \/ delivered'[r] = delivered[r] + 1
                  \/ IsSome(cr.child)]_vars

\* C3 witness: the exit was observed by is_running, one try_finish returned
\* the output and the try_finish after it returned None
AtMostOnceDeliveryWitness ==
    /\ program = "runner"
    /\ nstarts = 1
    /\ observed[1] = 1
    /\ delivered[1] = 1
    /\ cr = RunnerNew
    /\ last = [op |-> "try_finish", res |-> "Ok", out |-> None, sig |-> None]

\* C4: request_run appends exactly one Requested entry, and a Requested entry
\* that is not the most recent entry stays Requested in every later step: of
\* N coalesced requests only the most recent is ever promoted to Running.
Coalescing ==
    [][/\ \A i \in 1..(Len(Timeline) - 1) :
             Timeline[i] = Requested => TimelineNext[i] = Requested
       /\ Len(TimelineNext) /= Len(Timeline) => TimelineNext = Append(Timeline, Requested)
       /\ ChRequestRun => TimelineNext = Append(Timeline, Requested)]_vars

\* C4 witness: three coalesced requests, the last one promoted and completed
CoalescingWitness ==
    /\ Len(Timeline) = 3
    /\ Timeline[1] = Requested
    /\ Timeline[2] = Requested
    /\ Timeline[3].tag = "Completed"

\* C5: every run during which restart() was called (and no call failed) has
\* received exactly one terminate signal.
RestartSignalsExactlyOnce ==
    (program = "history" /\ status = "ok") =>
        \A r \in restarted : signals[r] = 1

\* C6: an entry is Terminated iff its run was sent a terminate signal, and
\* Completed iff it was not.
TerminatedIffSignalled ==
    \A i \in 1..Len(Timeline) :
        /\ Timeline[i].tag = "Terminated" => signals[RunOf(Timeline[i])] >= 1
        /\ Timeline[i].tag = "Completed" => signals[RunOf(Timeline[i])] = 0

\* C7: the backward search of try_finish always finds a Running entry: no
\* call of a CommandHistory panics.
TryFinishNeverPanics == program = "history" => status /= "panic"

\* one entry's step along Requested -> Running -> Completed/Terminated
EntryStep(a, b) ==
    \/ a = b
    \/ a = Requested /\ b = Running
    \/ a = Running /\ b.tag \in {"Completed", "Terminated"}

\* C8: the timeline is append-only: entries are never removed or reordered,
\* each moves only along Requested -> Running -> Completed/Terminated, and a
\* Completed or Terminated entry never changes.
AppendOnly ==
    [][/\ Len(TimelineNext) >= Len(Timeline)
       /\ \A i \in 1..Len(Timeline) : EntryStep(Timeline[i], TimelineNext[i])]_vars

\* C8 witness: a terminated run, a running one and a queued request
AppendOnlyWitness ==
    /\ Len(Timeline) = 3
    /\ Timeline[1].tag = "Terminated"
    /\ Timeline[2] = Running
    /\ Timeline[3] = Requested

\* C2: no start is issued for a CommandRunner that still tracks a child whose
\* exit was not observed, neither by CommandHistory::run_if_needed and restart
\* nor by the watch loop for the test and the server command.
NoStartWhileOutstanding == program \in {"history", "main"} => ~overlap

\* C2 witness: the watch loop starts a new server instance after it signalled
\* the previous one and observed its exit
NoStartWhileOutstandingWitness ==
    /\ program = "main"
    /\ last.op = "server_run"
    /\ \E r \in Runs : signals[r] >= 1 /\ observed[r] = 1

\* the child the server CommandRunner tracks, 0 if none
ServerRun(sc) ==
    IF IsSome(sc) /\ IsSome(Unwrap(sc).child) THEN Unwrap(Unwrap(sc).child).run ELSE 0

LastTestPassed ==
    /\ TestsLast(history).tag = "Completed"
    /\ Unwrap(TestsLast(history).out).success

\* C9: a step of the watch loop starts the server command or sends it a
\* terminate signal only if the most recent test entry is Completed with
\* success = true.
ServerGate ==
    [][(/\ program = "main"
        /\ \/ ServerRun(server_command') \notin {0, ServerRun(server_command)}
           \/ MainServerRestart /\ last'.op = "server_terminate")
       => LastTestPassed]_vars

\* C9 witness: the loop has just signalled the running server after a later
\* test run passed
ServerGateWitness ==
    /\ program = "main"
    /\ last.op = "server_terminate"
    /\ last.res = "Ok"
    /\ LastTestPassed
    /\ Len(history.history) = 2

\* C10 as stated: a burst of change events, each received within the window
\* of the previous one, appends one entry to the timeline (never a second).
BurstAppendsOneEntry == program = "main" => burst.pushed <= 1

\* C10 amended: the window is anchored at the event that appended the most
\* recent entry and later events do not reset it: a change event appends
\* nothing exactly when the test command was not started since that entry was
\* appended and at most 100 ms have passed since; otherwise it appends one
\* NotRan entry requested now.
ThrottleWindow ==
    [][MainRecv =>
        IF ~anchor.started /\ now - anchor.at <= Throttle
        THEN history'.history = history.history
        ELSE history'.history = Append(history.history, NotRan(now))]_vars

\* C10 witness: while a test run is in flight an event appended the second
\* entry, and the event received 100 ms later was dropped
ThrottleWindowWitness ==
    /\ program = "main"
    /\ last.op = "new_file_tree"
    /\ Len(history.history) = 2
    /\ history.history[1] = Running
    /\ burst = [at |-> Some(anchor.at + Throttle), pushed |-> 1]

\* C11: a capture that times out is treated as "still running": no poll
\* reports the exit of a child with an output that the time limit cut off.
CaptureTimeoutRetried == program = "runner" => ncut = 0

\* C12: for a test timeline of length L and every terminal width W the
\* rendered test strip has exactly W glyphs: W-L blank glyphs followed by the
\* L entries in order when L < W, the most recent W entries in order when
\* L >= W.
RenderingTruncation ==
    program = "main" =>
        \A W \in Widths :
            LET L == Len(history.history)
                strip == print_test(history, W)
            IN  /\ Len(strip) = W
                /\ \A k \in 1..W :
                      strip[k] = IF k <= W - L THEN Glyph(" ", "white")
                                 ELSE TestGlyph(history.history[L - W + k])

\* C12 witness: the loop has printed a timeline of three entries, whose strip
\* of width 2 drops the oldest entry and whose strip of width 1 shows the
\* run in flight
RenderingTruncationWitness ==
    /\ program = "main"
    /\ pc = "recv"
    /\ last_printed /= None
    /\ Len(history.history) = 3
    /\ TestGlyph(history.history[1]).text = OkStr
    /\ print_test(history, 2) = <<Glyph("x", "red"), Glyph("?", "yellow")>>
    /\ print_test(history, 1) = <<Glyph("?", "yellow")>>

\* the last glyph of the test strip of width W >= 1
LastGlyph(W) == print_test(history, W)[W]

\* the loop is about to print the strips of its first tick for a single run
\* request whose child was reported exited by the first poll after its start
FirstPollSawExit ==
    /\ program = "main"
    /\ status = "ok"
    /\ pc = "print"
    /\ last_printed = None
    /\ Len(history.history) = 1
    /\ observed[1] = 1

\* C13 as stated: with a child that is reported exited successfully by the
\* first poll after its start, the first strip rendered for a single run
\* request ends in '.' (followed by a strip ending in '?', then the ok-glyph).
RequestedRenderedFirst ==
    FirstPollSawExit => \A W \in 1..MaxWidth : LastGlyph(W).text = "."

\* C13 amended: the tick that starts the test command also polls it before it
\* prints, so when the first poll reports the exit the first strip rendered
\* ends in the glyph of the outcome; no strip rendered for a single request
\* ends in '.', and a strip ends in '?' only while the test runner still
\* tracks the child.
OutcomeRenderedFirst ==
    (program = "main" /\ status = "ok" /\ pc = "print") =>
        \A W \in 1..MaxWidth :
            /\ LastGlyph(W).text = "." => Len(history.history) > 1
            /\ LastGlyph(W).text = "?" => IsSome(test_command.child)
            /\ FirstPollSawExit =>
                  /\ history.history[1].tag = "Completed"
                  /\ RunOf(history.history[1]) = 1
                  /\ LastGlyph(W).text =
                        IF Unwrap(history.history[1].out).success THEN OkStr ELSE "x"

\* C13 witness: the first strips the loop prints show the ok-glyph for the
\* single request
OutcomeRenderedFirstWitness ==
    /\ FirstPollSawExit
    /\ Unwrap(history.history[1].out).success
    /\ Unwrap(history.history[1].out).complete
    /\ print_test(history, 1) = <<Glyph(OkStr, "green")>>

\* the step delivered the output of a test run that failed
FailureDelivered ==
    /\ MainTestFinish
    /\ IsSome(last'.out)
    /\ ~Unwrap(last'.out).success

\* C14: a test run that exits with success = false is recorded as a
\* Completed(success = false) entry and the loop goes on to the next step of
\* its tick; a change event received after it appends a new entry, and the
\* tick that finds that entry pending with nothing in flight starts the test
\* command again.
FailureDoesNotHalt ==
    [][/\ FailureDelivered =>
             /\ status' = "ok"
             /\ pc' = "server_finish"
             /\ CurrentlyRunning(history) /= 0
             /\ history'.history =
                   [history.history EXCEPT ![CurrentlyRunning(history)] =
                       Completed(Unwrap(last'.out))]
       /\ (MainRecv /\ TestsLast(history).tag = "Completed") =>
             history'.history = Append(history.history, NotRan(now))
       /\ (MainRun /\ status' = "ok" /\ TestsLast(history).tag = "NotRan"
                 /\ CurrentlyRunning(history) = 0) =>
             /\ TestsLast(history') = Running
             /\ nstarts' = nstarts + 1
             /\ RunnerChildLive(test_command')]_vars

\* C14 witness: after a failed run was recorded, a later change event had the
\* test command started again
FailureDoesNotHaltWitness ==
    /\ program = "main"
    /\ status = "ok"
    /\ Len(history.history) = 2
    /\ history.history[1].tag = "Completed"
    /\ ~Unwrap(history.history[1].out).success
    /\ history.history[2] = Running
    /\ RunnerChildLive(test_command)
    /\ last.op = "test_run"

\* C15: an error reported by a start, a poll, a terminate or the watcher
\* channel ends the watch loop, and a loop that has ended takes no further
\* step: it starts, polls and signals nothing.
FatalNotRetried ==
    [][program = "main" =>
          /\ status = "ok"
          /\ last'.res = "Err" => status' = "err"]_vars

\* C15 witness: the loop has ended on a terminate that failed, with the server
\* still running and the test command idle
FatalNotRetriedWitness ==
    /\ program = "main"
    /\ status = "err"
    /\ last = [op |-> "server_restart", res |-> "Err", out |-> None, sig |-> None]
    /\ RunnerChildLive(Unwrap(server_command))
    /\ Len(history.history) = 2
    /\ pc = "print"

\* the child of the CommandHistory's runner is still executing
HistoryChildLive == program = "history" /\ RunnerChildLive(ch.runner)

\* C16 as stated: run_if_needed starts nothing and leaves the timeline
\* unchanged when the child is still running, when the timeline is empty and
\* when the most recent entry is not Requested; otherwise it starts the
\* executor once and changes exactly the last entry from Requested to Running.
RunIfNeededNoOp ==
    [][ChRunIfNeeded =>
        IF \/ HistoryChildLive
           \/ Timeline = <<>>
           \/ Timeline[Len(Timeline)] /= Requested
        THEN nstarts' = nstarts /\ TimelineNext = Timeline
        ELSE /\ nstarts' = nstarts + 1
             /\ TimelineNext = [Timeline EXCEPT ![Len(Timeline)] = Running]]_vars

\* C16 amended: run_if_needed starts nothing and leaves the timeline
\* unchanged while the child is still running. Otherwise it first records an
\* exit it observes (the last Running entry becomes Completed or Terminated),
\* and then, when the most recent entry is Requested, marks it Running and
\* starts the executor once (the entry stays Running when the start fails);
\* it changes no other entry and starts nothing in any other case.
RunIfNeededEffect ==
    [][ChRunIfNeeded =>
        LET n == Len(Timeline) IN
        /\ Len(TimelineNext) = n
        /\ HistoryChildLive => nstarts' = nstarts /\ TimelineNext = Timeline
        /\ nstarts' \in {nstarts, nstarts + 1}
        /\ nstarts' = nstarts + 1 =>
              /\ ~HistoryChildLive
              /\ n > 0
              /\ Timeline[n] = Requested
              /\ TimelineNext[n] = Running
        /\ (~HistoryChildLive /\ n > 0 /\ Timeline[n] = Requested /\ status' = "ok") =>
              /\ TimelineNext[n] = Running
              /\ nstarts' = nstarts + 1
        /\ \A i \in 1..n :
              TimelineNext[i] /= Timeline[i] =>
                 \/ i = n /\ Timeline[i] = Requested /\ TimelineNext[i] = Running
                 \/ /\ i = RFindRunning(Timeline)
                    /\ TimelineNext[i].tag \in {"Completed", "Terminated"}
                    /\ observed'[RunOf(TimelineNext[i])] = 1]_vars

\* C16 witness: run_if_needed was the last call, the run of the first entry
\* was terminated and recorded, and the second entry is Running with its
\* child executing
RunIfNeededEffectWitness ==
    /\ program = "history"
    /\ status = "ok"
    /\ last.op = "run_if_needed"
    /\ Len(Timeline) = 2
    /\ Timeline[1].tag = "Terminated"
    /\ Timeline[2] = Running
    /\ nstarts = 2
    /\ HistoryChildLive

\* C17: terminate() sends one terminate signal to the tracked child when a
\* child is tracked (or returns the error of the signal it could not send);
\* when no child is tracked it sends no signal and returns success; in both
\* cases the runner's child and cached output are unchanged.
TerminateEffect ==
    [][CrTerminate =>
        /\ cr' = cr
        /\ IF IsSome(cr.child)
           THEN IF status' = "ok"
                THEN last'.res = "Ok" /\ last'.sig = Some(Unwrap(cr.child).run)
                ELSE last'.res = "Err" /\ last'.sig = None
           ELSE status' = "ok" /\ last'.res = "Ok" /\ last'.sig = None]_vars

\* C17 witness: terminate() has just signalled the second child, with the
\* output of the first child still in the cache
TerminateEffectWitness ==
    /\ program = "runner"
    /\ last.op = "terminate"
    /\ last.sig = Some(2)
    /\ RunnerChildLive(cr)
    /\ Cached(1)

\* C18: the watch loop sends a server instance the terminate signal at most
\* once, and starts no new instance before the exit of the signalled one was
\* observed.
ServerSignalledOnce ==
    program = "main" => (~overlap /\ \A r \in Runs : signals[r] <= 1)

\* the server is configured and entry i (1-based) is the most recent entry
\* of the timeline, no event is queued, its test run passed and the server
\* was not started for it
RestartPending(i) ==
    /\ program = "main"
    /\ status = "ok"
    /\ IsSome(server_command)
    /\ rx = 0
    /\ Len(history.history) = i
    /\ LastTestPassed
    /\ history.server_running_at /= Some(i - 1)

\* the server was started for entry i (1-based)
StartedFor(i) == program = "main" /\ history.server_running_at = Some(i - 1)

\* a change event arrived after entry i was appended
FurtherEvent(i) == program = "main" /\ (rx > 0 \/ Len(history.history) > i)

\* the step started the server command
ServerStartStep == MainServerRestart /\ last'.op = "server_run" /\ status' = "ok"

\* C19: once the most recent test entry is Completed(success = true) and the
\* server is not running for it, the server is eventually started for that
\* entry unless a further change event arrives (or the loop ends on a fatal
\* error), given that the loop keeps ticking and every signalled server
\* process exits; and the server is started for an entry only when it is not
\* marked as running for it, which the start then does: once per entry.
RestartNeverLost ==
    /\ \A i \in 1..MaxServerEntries :
          RestartPending(i) ~> (StartedFor(i) \/ FurtherEvent(i) \/ status /= "ok")
    /\ [][ServerStartStep =>
             /\ LastTestPassed
             /\ history.server_running_at /= Some(Len(history.history) - 1)
             /\ history'.server_running_at = Some(Len(history.history) - 1)]_vars
    /\ [][(program = "main" /\ history'.server_running_at /= history.server_running_at)
             => ServerStartStep]_vars

\* C19 witness: the server was restarted for the second entry after the
\* instance of the first entry was signalled and its exit observed
RestartNeverLostWitness ==
    /\ StartedFor(2)
    /\ Len(history.history) = 2
    /\ last.op = "server_run"
    /\ status = "ok"
    /\ 0 \in DOMAIN history.server_history
    /\ history.server_history[0].terminated
    /\ history.server_history[0].state.tag = "Completed"

\* a test run is owed: the most recent entry of the timeline was not run yet
TestOwed ==
    /\ program = "main"
    /\ status = "ok"
    /\ TestsLast(history).tag = "NotRan"

\* the step started the test command
TestStartStep ==
    /\ MainRun
    /\ nstarts' = nstarts + 1
    /\ RunnerChildLive(test_command')
    /\ TestsLast(history') = Running

\* C20: every change event the loop receives, appended or dropped by the
\* throttle, with or without a test run in flight, leaves a test run owed; an
\* owed run stays owed until the step that starts the test command (or the
\* loop ends on a fatal error); and the owed run is eventually started, given
\* that the loop keeps ticking and every test process exits.
NoChangeLost ==
    /\ [][MainRecv => (status' = "ok" => TestOwed')]_vars
    /\ [][(TestOwed /\ ~TestOwed') => (status' /= "ok" \/ TestStartStep)]_vars
    /\ TestOwed ~> ~TestOwed

\* C20 witness: a change event that the throttle dropped was followed by the
\* start of the test command for the pending entry, after an earlier run
\* was recorded
NoChangeLostWitness ==
    /\ program = "main"
    /\ status = "ok"
    /\ last.op = "test_run"
    /\ Len(history.history) = 2
    /\ history.history[1].tag = "Completed"
    /\ history.history[2] = Running
    /\ IsSome(burst.at)
    /\ Unwrap(burst.at) > anchor.at

\* C21: every exit of a server process is recorded. A server entry is Running
\* only while it is the entry of the instance the loop tracks: the loop
\* starts the next instance only after a poll saw the previous one exit, so
\* an entry that is still Running after server_running_at has moved on
\* belongs to a process that has exited and whose output no try_finish()
\* delivers any more.
ServerExitRecorded ==
    (program = "main" /\ IsSome(server_command)) =>
        \A i \in DOMAIN history.server_history :
            history.server_history[i].state = Running
                => history.server_running_at = Some(i)

\* C22: the bookkeeping of the watch loop stays in step with its runners. The
\* test timeline has a Running entry exactly when the test runner tracks a
\* child (and the runner holds no undelivered output), so finished() finds a
\* Running entry whenever an output is delivered; the server runner tracks
\* no child and holds no output while server_running_at is unset; hence no
\* unwrap and no unreachable!() of the loop's bookkeeping ever panics.
BookkeepingInStep ==
    program = "main" =>
        /\ status /= "panic"
        /\ (CurrentlyRunning(history) /= 0) <=> IsSome(test_command.child)
        /\ test_command.child_output = None
        /\ (IsSome(server_command) /\ history.server_running_at = None)
              => Unwrap(server_command) = RunnerNew

\* C22 witness: the test runner delivered an output that finished() recorded
\* in the Running entry, and the server runner has just delivered the output
\* of the instance started for that entry
BookkeepingInStepWitness ==
    /\ program = "main"
    /\ status = "ok"
    /\ pc = "server_restart"
    /\ last.op = "server_try_finish"
    /\ IsSome(last.out)
    /\ history.history[1].tag = "Completed"
    /\ CurrentlyRunning(history) = 0
    /\ history.server_running_at = Some(0)
    /\ history.server_history[0].state.tag = "Completed"

====
